---- MODULE Spec2Model ----
(***************************************************************************)
(* Upload lifecycle of the Kavita uploader: quarantine intake, scanning,   *)
(* metadata verification, the duplicate-aware mover and the Disk Guard     *)
(* cleanup, over the upload record table and the quarantine / unsorted /   *)
(* library directory trees.                                                *)
(*                                                                         *)
(* A file content is identified with its SHA-256 digest: contents are the  *)
(* numbers 1..NumContents, and Garbage is the content of a corrupt or      *)
(* partial copy (a digest equal to no upload's).  A path is <<dir, name>>, *)
(* a name is a sequence of tokens: "a.epub" is <<"a">>, "a_1.epub" is      *)
(* <<"a", 1>>, a name starting with "." is hidden.                         *)
(*                                                                         *)
(* Each handler is one atomic action.  The configuration object is read    *)
(* where the code reads it, as an input of the call; `call` keeps what the *)
(* last call read and what it returned.                                    *)
(***************************************************************************)
EXTENDS Integers, Sequences, FiniteSets, TLC

\* ---------------------------------------------------------------- bounds
MaxRequests == 7     \* requests served in a run
LifecycleRequests == 5   \* requests served in a run over all operations
MaxUploads == 2      \* records the store may hold
MaxCopies == 3       \* uploads of one content
NumContents == 2     \* distinct file contents that are uploaded
NumMetas == 2        \* distinct (title, author) pairs users enter
MaxTarget == 2       \* bytes a cleanup sweep is asked to free
MaxTimestamp == 1    \* distinct clock seconds seen by generate_renamed_filename
MaxFileSize == 3     \* size of an uploaded file
MaxChecks == 1       \* free-space checks made in a run
MaxQuarantineSize == 2   \* largest cap on the quarantine size
IntakeRequests == 4  \* requests served in a run of intake
ReclaimRequests == 4 \* requests served in a run with cleanup sweeps
DetectRequests == 5  \* requests served in a run of duplicate checks
RaceRequests == 4    \* requests served before the concurrent handlers start
SweepRequests == 4   \* requests served in a run beside a cleanup sweep
TraversalRequests == 5   \* requests served in a run with client-chosen names
PollRequests == 3    \* requests served in a run beside a scan
MaxRetries == 2      \* largest config.scanning.max_retries

None == "none"       \* a null string column
NoPath == <<>>       \* a null path column
NoId == 0            \* a null uuid column
NoMeta == 0          \* metadata_json is null
NoTime == 0          \* a null timestamp column
Incomplete == -1     \* submitted metadata lacking a required field (title, author)
Garbage == 0         \* content of a corrupt or partial copy
NoContent == -2      \* nothing was copied
\* the manifest file does not exist (<<>> is a file that exists and is empty)
NoManifest == <<[uuid |-> NoId, action |-> "absent"]>>

\* A setting of the configuration, as a call saw it; Unread when the call
\* returned before reading it.
On == "on"
Off == "off"
Unread == "unread"
Flags == {On, Off}

Contents == 1..NumContents
Metas == 1..NumMetas
Timestamps == 1..MaxTimestamp

\* Every upload is called a.epub: name collisions at the destination are the rule.
FileNames == {<<"a">>}
\* The names a client may send in the multipart header: a.epub and ../a.epub.
ClientNames == FileNames \cup {<<"..", "a">>}

\* config.folders.quarantine, config.moving.unsorted_dir and its processed/
\* subfolder, config.moving.kavita_library_dirs
QuarantineDir == "quarantine"
UnsortedDir == "unsorted"
ProcessedDir == "processed"
LibraryDir == "library"
\* directories walked for filesystem duplicates: unsorted_dir (with processed/) and the libraries
SearchDirs == {UnsortedDir, ProcessedDir, LibraryDir}

KeptStatuses == {"moved", "safe", "metadata_verified"}
VerifiedStatuses == {"metadata_verified", "safe", "clean"}

VARIABLES
    uploads,    \* the uploads table: sequence of records, index = uuid, in uploaded_at order
    fs,         \* the files on disk: path -> content
    dirs,       \* the directories that exist
    manifest,   \* rows of the manifest CSV, NoManifest while the file does not exist
    call,       \* the last call: operation, configuration that decided it, result returned
    requests,   \* number of requests served so far
    tasks       \* the handlers in flight: where each one is and what it has read

vars == <<uploads, fs, dirs, manifest, call, requests, tasks>>

Ids == 1..MaxUploads
Exists(id) == id \in DOMAIN uploads
FileExists(p) == p \in DOMAIN fs
Hidden(name) == name[1] = "."
FilesIn(dir) == {p \in DOMAIN fs : p[1] = dir}

Put(f, p, c) == [q \in DOMAIN f \cup {p} |-> IF q = p THEN c ELSE f[q]]
Remove(f, p) == [q \in DOMAIN f \ {p} |-> f[q]]

\* utils.sanitize_filename: os.path.basename drops the directory components,
\* and the leading dots are stripped.
SanitizeFilename(name) == SelectSeq(name, LAMBDA token : token \notin {"..", "."})

Upload(status, hash, name, qpath) ==
    [status |-> status, hash |-> hash, name |-> name,
     sanitized_filename |-> SanitizeFilename(name), meta |-> NoMeta,
     scan_result |-> None, scanned_at |-> NoTime,
     quarantine_path |-> qpath, final_path |-> NoPath,
     moved_at |-> FALSE, is_duplicate |-> FALSE, duplicate_of |-> NoId,
     duplicate_reason |-> None, error_message |-> None]

\* The handlers that are followed await by await: two calls of move_file,
\* one cleanup sweep and one scan.  Every other handler runs as one step.
Movers == {"move_1", "move_2"}
Sweeper == "sweep"
Scanner == "scan"
Tasks == Movers \cup {Sweeper, Scanner}
Idle == [pc |-> "idle"]

\* The library tree holds one file, visible or hidden, that the program never writes.
LibraryFiles ==
    {[p \in {<<LibraryDir, n>>} |-> 1] : n \in {<<"x">>, <<".", "x">>}}

Init ==
    /\ uploads = <<>>
    /\ fs \in LibraryFiles
    /\ dirs = {QuarantineDir, UnsortedDir, LibraryDir}
    /\ manifest = NoManifest
    /\ call = [op |-> "init"]
    /\ requests = 0
    /\ tasks = [t \in Tasks |-> Idle]

\* ------------------------------------------------------------- intake
\* UploadService.save_to_quarantine: the file is written as {uuid}.{ext} in
\* the quarantine directory and a record with its hash is inserted.
SaveToQuarantine(content, name) ==
    /\ LET id == Len(uploads) + 1
           qpath == <<QuarantineDir, <<"uuid", id>>>>
       IN /\ uploads' = Append(uploads, Upload("quarantined", content, name, qpath))
          /\ fs' = Put(fs, qpath, content)
          /\ dirs' = dirs \cup {QuarantineDir}
          /\ call' = [op |-> "upload", status |-> "quarantined"]
    /\ UNCHANGED manifest

\* ----------------------------------------------------- metadata update
\* MetadataExtractor.validate_metadata with the default required_fields
\* (title, author): every required field is present.
ValidateMetadata(meta) == meta # Incomplete

\* PUT /upload/{id}/metadata
UpdateMetadata(id, meta) ==
    /\ IF ~Exists(id) THEN
           /\ call' = [op |-> "update_metadata", status |-> "404"]
           /\ UNCHANGED uploads
       ELSE IF ~ValidateMetadata(meta) THEN
           /\ call' = [op |-> "update_metadata", status |-> "validation_failed"]
           /\ UNCHANGED uploads
       ELSE
           /\ uploads' = [uploads EXCEPT ![id] =
                             [@ EXCEPT !.meta = meta, !.status = "metadata_verified"]]
           /\ call' = [op |-> "update_metadata", status |-> "metadata_verified"]
    /\ UNCHANGED <<fs, dirs, manifest>>

\* ------------------------------------------------------------------ scan
\* DuplicateDetector.get_scan_history: the most recently scanned record with
\* this hash that has a scan result, NoId when there is none or when
\* auto_skip_known_hashes is off.
GetScanHistory(file_hash, auto_skip_known_hashes) ==
    LET scanned == {j \in DOMAIN uploads :
                       uploads[j].hash = file_hash /\ uploads[j].scan_result # None}
    IN IF auto_skip_known_hashes = Off \/ scanned = {} THEN NoId
       ELSE CHOOSE j \in scanned :
                \A k \in scanned : uploads[k].scanned_at <= uploads[j].scanned_at

\* What the VirusTotal scanner reports for a file
Verdicts == {"malicious", "clean", "undetected", "suspicious", "pending", "error"}

\* The (scan_result, status) a scanner verdict is stored as.
VerdictResult(scan_status) ==
    IF scan_status = "malicious" THEN <<"infected", "infected">>
    ELSE IF scan_status \in {"clean", "undetected"} THEN <<"safe", "scanned">>
    ELSE IF scan_status = "suspicious" THEN <<"suspicious", "suspicious">>
    ELSE IF scan_status = "pending" THEN <<"pending", "scanning">>
    ELSE <<"error", "scan_error">>

\* ScanningService._scan_file_internal(upload_uuid)
ScanFile(id) ==
    \E enabled \in Flags :
       IF enabled = Off THEN
           /\ call' = [op |-> "scan", status |-> "disabled"]
           /\ UNCHANGED <<uploads, fs, dirs, manifest>>
       ELSE IF ~Exists(id) THEN
           /\ call' = [op |-> "scan", status |-> "error"]
           /\ UNCHANGED <<uploads, fs, dirs, manifest>>
       ELSE IF uploads[id].scan_result \in {"safe", "clean"} THEN
           /\ call' = [op |-> "scan", status |-> "already_scanned"]
           /\ UNCHANGED <<uploads, fs, dirs, manifest>>
       ELSE
           \E auto_skip_known_hashes \in Flags :
              LET previous == GetScanHistory(uploads[id].hash, auto_skip_known_hashes) IN
              IF previous # NoId THEN
                  LET scan_result == uploads[previous].scan_result IN
                  /\ uploads' = [uploads EXCEPT ![id] =
                         [@ EXCEPT !.scan_result = scan_result,
                                   !.scanned_at = requests + 1,
                                   !.status = IF scan_result \in {"safe", "clean"}
                                              THEN "scanned" ELSE "infected"]]
                  /\ call' = [op |-> "scan", status |-> "reused", id |-> id,
                              scan_status |-> None, previous |-> previous]
                  /\ UNCHANGED <<fs, dirs, manifest>>
              ELSE
                  \* the scanner raises: the record stays in status scanning
                  \/ /\ uploads' = [uploads EXCEPT ![id] = [@ EXCEPT !.status = "scanning"]]
                     /\ call' = [op |-> "scan", status |-> "exception", id |-> id,
                                 scan_status |-> None, previous |-> NoId]
                     /\ UNCHANGED <<fs, dirs, manifest>>
                  \/ \E scan_status \in Verdicts, deleted \in BOOLEAN :
                        LET stored == VerdictResult(scan_status)
                            \* auto_delete_infected is on and os.remove succeeds
                            remove == /\ scan_status = "malicious" /\ deleted
                                      /\ FileExists(uploads[id].quarantine_path)
                        IN
                        /\ scan_status # "malicious" => ~deleted
                        /\ uploads' = [uploads EXCEPT ![id] =
                               [@ EXCEPT !.scan_result = stored[1],
                                         !.scanned_at = requests + 1,
                                         !.status = IF remove THEN "deleted" ELSE stored[2]]]
                        /\ fs' = IF remove THEN Remove(fs, uploads[id].quarantine_path) ELSE fs
                        /\ call' = [op |-> "scan", status |-> "completed", id |-> id,
                                    scan_status |-> scan_status, previous |-> NoId]
                        /\ UNCHANGED <<dirs, manifest>>

\* ------------------------------------------------------------ Disk Guard
\* st_size of a quarantine file
FileSize == 1

\* The loop of cleanup_old_files over its candidates, oldest first: the file
\* is deleted if it is there, the record is marked, and the loop stops once
\* the target (if any) is freed.  A record whose unlink fails is skipped.
RECURSIVE CleanupOld(_, _, _, _, _, _)
CleanupOld(old_uploads, ups, files, bytes_freed, target_bytes_to_free, failing) ==
    IF old_uploads = <<>> THEN [uploads |-> ups, fs |-> files, bytes_freed |-> bytes_freed]
    ELSE LET id == Head(old_uploads)
             path == ups[id].quarantine_path
             there == path \in DOMAIN files
         IN IF there /\ id \in failing
            THEN CleanupOld(Tail(old_uploads), ups, files, bytes_freed,
                            target_bytes_to_free, failing)
            ELSE LET freed == IF there THEN bytes_freed + FileSize ELSE bytes_freed
                     marked == [ups EXCEPT ![id] = [@ EXCEPT !.status = "auto_deleted",
                                                              !.error_message = "Auto-deleted"]]
                     left == IF there THEN Remove(files, path) ELSE files
                 IN IF target_bytes_to_free > 0 /\ freed >= target_bytes_to_free
                    THEN [uploads |-> marked, fs |-> left, bytes_freed |-> freed]
                    ELSE CleanupOld(Tail(old_uploads), marked, left, freed,
                                    target_bytes_to_free, failing)

\* The loop of emergency_cleanup: it stops before a record once the target is freed.
RECURSIVE CleanupEmergency(_, _, _, _, _, _)
CleanupEmergency(candidates, ups, files, bytes_freed, target_free_bytes, failing) ==
    IF candidates = <<>> \/ bytes_freed >= target_free_bytes
    THEN [uploads |-> ups, fs |-> files, bytes_freed |-> bytes_freed]
    ELSE LET id == Head(candidates)
             path == ups[id].quarantine_path
             there == path \in DOMAIN files
         IN IF there /\ id \in failing
            THEN CleanupEmergency(Tail(candidates), ups, files, bytes_freed,
                                  target_free_bytes, failing)
            ELSE CleanupEmergency(Tail(candidates),
                     [ups EXCEPT ![id] = [@ EXCEPT !.status = "emergency_deleted",
                                                   !.error_message = "Deleted during emergency disk cleanup"]],
                     IF there THEN Remove(files, path) ELSE files,
                     IF there THEN bytes_freed + FileSize ELSE bytes_freed,
                     target_free_bytes, failing)

\* Variant of the candidate query without its filter on the status.
CandidatesOfAnyStatus(statuses, older) == [i \in 1..older |-> i]

\* The records with a status in statuses among the `older` oldest, oldest first.
Candidates(statuses, older) ==
    SelectSeq([i \in 1..older |-> i], LAMBDA i : uploads[i].status \in statuses)

\* The sets of records whose unlink fails in a sweep: none, or one record.
Failing == {{}} \cup {{id} : id \in Ids}

\* Variant of cleanup_old_files whose loop never looks at the target.
CleanupOldFilesOverrunning(older, target_bytes_to_free) ==
    \E failing \in Failing :
       LET old_uploads == Candidates({"quarantined", "scanning", "scan_failed", "infected"}, older)
           done == CleanupOld(old_uploads, uploads, fs, 0, 0, failing)
       IN /\ uploads' = done.uploads
          /\ fs' = done.fs
          /\ call' = [op |-> "cleanup_old_files", status |-> "done", older |-> older,
                       target |-> target_bytes_to_free, bytes_freed |-> done.bytes_freed]
          /\ UNCHANGED <<dirs, manifest>>

\* DiskMonitor.cleanup_old_files(max_age_hours, target_bytes_to_free): `older`
\* records were uploaded before the cutoff.
CleanupOldFiles(older, target_bytes_to_free) ==
    \E failing \in Failing :
       LET old_uploads == Candidates({"quarantined", "scanning", "scan_failed", "infected"}, older)
           done == CleanupOld(old_uploads, uploads, fs, 0, target_bytes_to_free, failing)
       IN /\ uploads' = done.uploads
          /\ fs' = done.fs
          /\ call' = [op |-> "cleanup_old_files", status |-> "done", older |-> older,
                       target |-> target_bytes_to_free, bytes_freed |-> done.bytes_freed]
          /\ UNCHANGED <<dirs, manifest>>

\* DiskMonitor.emergency_cleanup(target_free_bytes)
EmergencyCleanup(target_free_bytes) ==
    \E failing \in Failing :
       LET candidates == Candidates({"quarantined", "scanning", "scan_failed"}, Len(uploads))
           done == CleanupEmergency(candidates, uploads, fs, 0, target_free_bytes, failing)
       IN /\ uploads' = done.uploads
          /\ fs' = done.fs
          /\ call' = [op |-> "emergency_cleanup", status |-> "done",
                       target |-> target_free_bytes, bytes_freed |-> done.bytes_freed]
          /\ UNCHANGED <<dirs, manifest>>

\* Sizes of volumes and uploads are counted in units of 2^30 bytes; scaling
\* by a power of two leaves the floating-point results below as they are.
\* Volumes of 8 and of 50 units, with every amount of free space.
Totals == {8, 50}
Disks == {[total |-> t, free |-> f] : t \in Totals, f \in 0..50} \ {[total |-> 8, free |-> f] : f \in 9..50}
\* config.disk_protection.min_free_space_percent and reserve_space_bytes: the
\* settings are a float and an int without range checks.
Percents == {-100, 0, 25, 58}
Reserves == {-3, 0, 2}

\* DiskMonitor.get_disk_usage: total and free of the volume, zeros when
\* shutil.disk_usage raises.
GetDiskUsage(disk, raises) == IF raises THEN [total |-> 0, free |-> 0] ELSE disk

\* The pairs (free_after_upload, total) over these volumes for which the
\* double free_after_upload / total * 100 is below the exact quotient:
\* 29 / 50 * 100 evaluates to 57.99999999999999.
RoundedDown == {<<29, 50>>}

\* percent_free_after < min_free_percent, for percent_free_after =
\* (free_after_upload / total * 100) if total > 0 else 0, in double precision.
PercentFreeAfterBelow(free_after_upload, total, min_free_percent) ==
    IF total > 0
    THEN \/ free_after_upload * 100 < min_free_percent * total
         \/ /\ free_after_upload * 100 = min_free_percent * total
            /\ <<free_after_upload, total>> \in RoundedDown
    ELSE 0 < min_free_percent

Denied(reason) == [allowed |-> FALSE, reason |-> reason]
Allowed == [allowed |-> TRUE, reason |-> ""]

\* Variant of check_disk_space_available without the percentage check.
CheckDiskSpaceWithoutPercent(usage, required_bytes, min_free_percent, reserve_bytes) ==
    IF usage.free < required_bytes THEN Denied("Insufficient disk space")
    ELSE IF usage.free - required_bytes < reserve_bytes
    THEN Denied("Upload would breach disk space reserve")
    ELSE Allowed

\* Variant of check_disk_space_available without the reserve check.
CheckDiskSpaceWithoutReserve(usage, required_bytes, min_free_percent, reserve_bytes) ==
    IF usage.free < required_bytes THEN Denied("Insufficient disk space")
    ELSE IF PercentFreeAfterBelow(usage.free - required_bytes, usage.total, min_free_percent)
    THEN Denied("Upload would leave only")
    ELSE Allowed

\* DiskMonitor.check_disk_space_available(path, required_bytes), given what
\* get_disk_usage(path) returned and the two thresholds of the configuration.
CheckDiskSpaceAvailable(usage, required_bytes, min_free_percent, reserve_bytes) ==
    IF usage.free < required_bytes THEN Denied("Insufficient disk space")
    ELSE IF PercentFreeAfterBelow(usage.free - required_bytes, usage.total, min_free_percent)
    THEN Denied("Upload would leave only")
    ELSE IF usage.free - required_bytes < reserve_bytes
    THEN Denied("Upload would breach disk space reserve")
    ELSE Allowed

\* DiskMonitor.get_quarantine_size: the sum of file_size (the st_size taken
\* when the file was saved) over the records with status quarantined or scanning.
RECURSIVE SumFileSize(_)
SumFileSize(ids) ==
    IF ids = {} THEN 0
    ELSE LET id == CHOOSE id \in ids : TRUE IN FileSize + SumFileSize(ids \ {id})

GetQuarantineSize ==
    SumFileSize({id \in DOMAIN uploads : uploads[id].status \in {"quarantined", "scanning"}})

\* Variant of check_quarantine_limit that denies an upload reaching the cap.
CheckQuarantineLimitAtCap(additional_bytes, max_quarantine_size) ==
    IF max_quarantine_size <= 0 THEN Allowed
    ELSE IF GetQuarantineSize + additional_bytes >= max_quarantine_size
    THEN Denied("Quarantine full")
    ELSE Allowed

\* DiskMonitor.check_quarantine_limit(additional_bytes) under the cap
\* config.disk_protection.max_quarantine_size_bytes.
CheckQuarantineLimit(additional_bytes, max_quarantine_size) ==
    IF max_quarantine_size <= 0 THEN Allowed
    ELSE IF GetQuarantineSize + additional_bytes > max_quarantine_size
    THEN Denied("Quarantine full")
    ELSE Allowed

\* ------------------------------------------------------------ upload_file
\* A call of upload_file: the HTTP status and error it answered, the size of
\* the file, the Disk Guard checks it evaluated with the cap and the answer
\* of the quarantine check, and the cleanup it ran.
UploadCall(status, error, file_size, checks, cap, quarantine, auto_cleanup, cleanups, bytes_freed) ==
    [op |-> "upload_file", status |-> status, error |-> error, file_size |-> file_size,
     checks |-> checks, max_quarantine_size |-> cap, quarantine |-> quarantine,
     auto_cleanup |-> auto_cleanup, cleanups |-> cleanups, bytes_freed |-> bytes_freed]

\* upload_file answers; the records and files are what the cleanup left.
UploadReturned(ups, files, c) ==
    /\ uploads' = ups
    /\ fs' = files
    /\ call' = c
    /\ UNCHANGED <<dirs, manifest>>

\* Rejected before the Disk Guard: extension, size, empty file.
UploadInvalid(error, file_size) ==
    UploadReturned(uploads, fs, UploadCall(400, error, file_size, {}, 0, Unread, Unread, 0, 0))

\* The end of upload_file, after the Disk Guard: the login check, then
\* save_to_quarantine is called with the keyword uploaded_by, which it does
\* not take: the TypeError is answered as 500 before any byte is written.
UploadSaved(ups, files, file_size, checks, cap, quarantine, auto_cleanup, cleanups, bytes_freed) ==
    \E authenticated \in BOOLEAN :
       UploadReturned(ups, files,
          UploadCall(IF authenticated THEN 500 ELSE 401,
                     IF authenticated THEN "Upload failed" ELSE "Authentication required",
                     file_size, checks, cap, quarantine, auto_cleanup, cleanups, bytes_freed))

\* Check 3 of the Disk Guard, the single upload size limit, and what follows.
UploadGuarded(ups, files, file_size, cap, quarantine, auto_cleanup, cleanups, bytes_freed) ==
    \E max_single_upload \in 1..MaxFileSize :
       IF file_size > max_single_upload
       THEN UploadReturned(ups, files,
               UploadCall(400, "File exceeds disk protection limit", file_size,
                          {"space", "quarantine", "single"}, cap, quarantine, auto_cleanup,
                          cleanups, bytes_freed))
       ELSE UploadSaved(ups, files, file_size, {"space", "quarantine", "single"}, cap,
                        quarantine, auto_cleanup, cleanups, bytes_freed)

\* Variant of the test on the cleanup that is content with any byte freed.
FreedAnything(bytes_freed, file_size) == bytes_freed > 0

\* The upload can proceed after the cleanup: bytes_freed >= file_size.
FreedEnough(bytes_freed, file_size) == bytes_freed >= file_size

\* Check 2 of the Disk Guard: the quarantine limit, with one cleanup of old
\* files (committed by cleanup_old_files) when it is exceeded.
UploadLimited(file_size) ==
    \E cap \in -1..MaxQuarantineSize :
       IF CheckQuarantineLimit(file_size, cap).allowed
       THEN UploadGuarded(uploads, fs, file_size, cap, "ok", Unread, 0, 0)
       ELSE \E auto_cleanup \in Flags :
               IF auto_cleanup = Off
               THEN UploadReturned(uploads, fs,
                       UploadCall(507, "Quarantine full", file_size, {"space", "quarantine"},
                                  cap, "full", auto_cleanup, 0, 0))
               ELSE \E older \in 0..Len(uploads), failing \in Failing :
                       LET old_uploads == Candidates({"quarantined", "scanning",
                                                      "scan_failed", "infected"}, older)
                           done == CleanupOld(old_uploads, uploads, fs, 0, file_size, failing)
                       IN IF FreedEnough(done.bytes_freed, file_size)
                          THEN UploadGuarded(done.uploads, done.fs, file_size, cap, "full",
                                             auto_cleanup, 1, done.bytes_freed)
                          ELSE UploadReturned(done.uploads, done.fs,
                                  UploadCall(507, "Quarantine full", file_size,
                                             {"space", "quarantine"}, cap, "full",
                                             auto_cleanup, 1, done.bytes_freed))

\* POST /upload: validation, Disk Guard, login, save.
UploadFile ==
    \E extension_ok \in BOOLEAN, file_size \in 0..MaxFileSize,
       max_file_size_bytes \in {MaxFileSize - 1, MaxFileSize} :
       IF ~extension_ok THEN UploadInvalid("Invalid file type", file_size)
       ELSE IF file_size > max_file_size_bytes THEN UploadInvalid("File too large", file_size)
       ELSE IF file_size = 0 THEN UploadInvalid("Empty file", file_size)
       ELSE \E enabled \in Flags :
               IF enabled = Off
               THEN UploadSaved(uploads, fs, file_size, {}, 0, Unread, Unread, 0, 0)
               ELSE \E disk \in {[total |-> 8, free |-> f] : f \in {0, 8}} :
                       IF ~CheckDiskSpaceAvailable(GetDiskUsage(disk, FALSE), file_size,
                                                   0, 0).allowed
                       THEN UploadReturned(uploads, fs,
                               UploadCall(507, "Insufficient disk space", file_size,
                                          {"space"}, 0, Unread, Unread, 0, 0))
                       ELSE UploadLimited(file_size)

\* ------------------------------------------------------ duplicate report
\* A call of POST /upload/{id}/check-duplicate: the settings read and the
\* report returned.
DuplicateCall(id, status, enabled, check_by_hash, is_duplicate, reason, original_uuid) ==
    [op |-> "check_duplicate", id |-> id, status |-> status, enabled |-> enabled,
     check_by_hash |-> check_by_hash, is_duplicate |-> is_duplicate, reason |-> reason,
     original_uuid |-> original_uuid]

\* select(Upload).where(Upload.file_hash_sha256 == file_hash), for the hash
\* of record id.
HashQuery(id) == {j \in DOMAIN uploads : uploads[j].hash = uploads[id].hash}

\* The route check_duplicate with DuplicateDetector.check_duplicate: the
\* size query that follows the hash query only writes to the log.
CheckDuplicate(id) ==
    /\ IF ~Exists(id) THEN
           call' = DuplicateCall(id, "404", Unread, Unread, FALSE, None, NoId)
       ELSE \E enabled \in Flags :
          IF enabled = Off THEN
              call' = DuplicateCall(id, "ok", enabled, Unread, FALSE,
                                    "duplicate_detection_disabled", NoId)
          ELSE \E check_by_hash \in Flags :
             LET existing == IF check_by_hash = On THEN HashQuery(id) ELSE {} IN
             IF Cardinality(existing) > 1 THEN
                 call' = DuplicateCall(id, "exception", enabled, check_by_hash, FALSE,
                                       "MultipleResultsFound", NoId)
             ELSE IF existing # {} THEN
                 \E j \in existing :
                    call' = DuplicateCall(id, "ok", enabled, check_by_hash, TRUE, "hash", j)
             ELSE
                 call' = DuplicateCall(id, "ok", enabled, check_by_hash, FALSE,
                                       "unique_file", NoId)
    /\ UNCHANGED <<uploads, fs, dirs, manifest>>

\* ---------------------------------------------------------------- mover
\* MoverService.check_duplicates_by_hash: the other kept records with this hash.
CheckDuplicatesByHash(file_hash, exclude_uuid) ==
    {j \in DOMAIN uploads :
        /\ uploads[j].hash = file_hash
        /\ uploads[j].status \in KeptStatuses
        /\ j # exclude_uuid}

\* Variant of check_duplicates_in_filesystem that finds no file.
CheckDuplicatesNowhere(file_hash) == {}

\* MoverService.check_duplicates_in_filesystem: the visible files under the
\* search directories whose hash is file_hash.
CheckDuplicatesInFilesystem(file_hash) ==
    {p \in DOMAIN fs : p[1] \in SearchDirs /\ ~Hidden(p[2]) /\ fs[p] = file_hash}

\* MoverService.check_name_conflict: the other kept records with metadata of
\* the same title and author.
CheckNameConflict(meta, exclude_uuid) ==
    IF meta \in {NoMeta, Incomplete} THEN {}
    ELSE {j \in DOMAIN uploads :
            /\ uploads[j].status \in KeptStatuses
            /\ uploads[j].meta # NoMeta
            /\ j # exclude_uuid
            /\ uploads[j].meta = meta}

\* Variant of generate_renamed_filename that returns the name every upload has.
GenerateRenamedFilenameUnchanged(meta, timestamp) == <<"a">>

\* MoverService.generate_renamed_filename: "{title} - {author} (duplicate_{timestamp}){ext}"
GenerateRenamedFilename(meta, timestamp) == <<"duplicate", meta, timestamp>>

\* dest_dir / filename, as the filesystem resolves it: a leading ../ leads to
\* the parent directory, which for base_dir / "processed" is unsorted_dir.
Join(dir, filename) ==
    IF Head(filename) # ".." THEN <<dir, filename>>
    ELSE <<IF dir = ProcessedDir THEN UnsortedDir ELSE dir, Tail(filename)>>

\* destination_path.stem: the last component, without directories.
Stem(filename) == IF Head(filename) = ".." THEN Tail(filename) ELSE filename

\* The loop of move_file that appends _1, _2, ... to the stem until the name is free.
RECURSIVE FirstFree(_, _)
FirstFree(base_name, counter) ==
    IF FileExists(<<ProcessedDir, Append(base_name, counter)>>)
    THEN FirstFree(base_name, counter + 1)
    ELSE <<ProcessedDir, Append(base_name, counter)>>

\* Variant of the destination resolution without the loop: the name as given.
ResolveDestinationTaken(filename) == <<ProcessedDir, filename>>

ResolveDestination(filename) ==
    IF FileExists(Join(ProcessedDir, filename))
    THEN FirstFree(Stem(filename), 1)
    ELSE Join(ProcessedDir, filename)

\* MoverService.write_to_manifest: nothing when checksum_manifest is off, else
\* the header when the file does not exist, then one row (its uuid and action
\* columns), appended to the file.
ManifestRow(id, action) == [uuid |-> id, action |-> action]
Header == [uuid |-> NoId, action |-> "header"]

\* Variant of write_to_manifest that opens the file with mode 'w'.
WriteToManifestTruncating(rows, checksum_manifest, row) ==
    IF checksum_manifest = Off THEN rows ELSE <<Header, row>>

WriteToManifest(rows, checksum_manifest, row) ==
    IF checksum_manifest = Off THEN rows
    ELSE IF rows = NoManifest THEN <<Header, row>>
    ELSE Append(rows, row)

\* What a write_to_manifest that raises leaves: the manifest as it was (mkdir
\* or open raised), or the empty file that open(manifest_path, 'a') created
\* before the write raised.
FailedManifestWrites(rows) ==
    {rows} \cup (IF rows = NoManifest THEN {<<>>} ELSE {})

\* str(e) of an exception raised by the operating system
OSError == "OSError"

\* What the physical move did: the filesystem it leaves, how it ended, the
\* error raised, the settings that decided it and the content copy2 wrote.
Moved(files, outcome, error, verify, cleanup, copied) ==
    [fs |-> files, outcome |-> outcome, error |-> error, verify |-> verify,
     cleanup |-> cleanup, copied |-> copied]

\* os.replace(source, destination): atomic, or raises and changes nothing.
AtomicMoves(source, destination) ==
    { Moved(Put(Remove(fs, source), destination, fs[source]), "ok", None, Unread, Unread, NoContent),
      Moved(fs, "move_failed", OSError, Unread, Unread, NoContent) }

\* Variant of the cleanup in which a failing unlink has removed the source.
CleanupMovesLosingSource(files, source, verify, copied) ==
    { Moved(files, "ok", None, verify, Off, copied),
      Moved(Remove(files, source), "ok", None, verify, On, copied),
      Moved(Remove(files, source), "move_failed", OSError, verify, On, copied) }

\* source_path.unlink() when cleanup_quarantine_on_success, after the copy is accepted.
CleanupMoves(files, source, verify, copied) ==
    { Moved(files, "ok", None, verify, Off, copied),
      Moved(Remove(files, source), "ok", None, verify, On, copied),
      Moved(files, "move_failed", OSError, verify, On, copied) }

\* Variant of the verification that accepts every copy.
VerifiedMovesAcceptingAll(files, source, destination, file_hash) ==
    { Moved(files, "move_failed", OSError, On, Unread, files[destination]) }
    \cup { Moved(files, "ok", None, On, Off, files[destination]),
           Moved(Remove(files, source), "ok", None, On, On, files[destination]),
           Moved(files, "move_failed", OSError, On, On, files[destination]) }

\* verify_integrity on the copy when verify_integrity_post_move; on a mismatch
\* the copy is unlinked.
VerifiedMoves(files, source, destination, file_hash) ==
    { Moved(files, "move_failed", OSError, On, Unread, files[destination]) }
    \cup (IF files[destination] # file_hash
          THEN { Moved(Remove(files, destination), "integrity_failed", None, On, Unread,
                       files[destination]),
                 Moved(files, "move_failed", OSError, On, Unread, files[destination]) }
          ELSE CleanupMoves(files, source, On, files[destination]))

\* Variant of the copy that consumes the source, as a move would.
CopyMovesConsumingSource(source, destination, file_hash) ==
    { Moved(fs, "move_failed", OSError, Unread, Unread, NoContent),
      Moved(Put(fs, destination, Garbage), "move_failed", OSError, Unread, Unread, Garbage) }
    \cup UNION { { Moved(Remove(Put(fs, destination, c), source), "move_failed", OSError,
                         On, Unread, c) }
                 \cup (IF c # file_hash
                       THEN { Moved(Remove(fs, source), "integrity_failed", None, On, Unread, c) }
                       ELSE { Moved(Remove(Put(fs, destination, c), source), "ok", None,
                                    On, On, c) })
                 \cup { Moved(Remove(Put(fs, destination, c), source), "ok", None,
                              Off, On, c) }
                 : c \in {fs[source], Garbage} }

\* shutil.copy2(source, destination): a faithful copy, a corrupt one, or an
\* error that leaves nothing or a partial file; then verification and cleanup.
CopyMoves(source, destination, file_hash) ==
    { Moved(fs, "move_failed", OSError, Unread, Unread, NoContent),
      Moved(Put(fs, destination, Garbage), "move_failed", OSError, Unread, Unread, Garbage) }
    \cup UNION { VerifiedMoves(Put(fs, destination, c), source, destination, file_hash)
                 \cup CleanupMoves(Put(fs, destination, c), source, Off, c)
                 : c \in {fs[source], Garbage} }

\* STEP 5 of move_file: every way the physical move can go.  The rename is
\* taken only with atomic_operations and source and destination in one directory.
PhysicalMoves(source, destination, file_hash) ==
    (IF source[1] = destination[1] THEN AtomicMoves(source, destination) ELSE {})
    \cup CopyMoves(source, destination, file_hash)

\* A call of move_file: what it returned, and the settings of config.moving
\* that decided it.
MoveCall(id, status, reason, destination, dry_run, discard, rename, manifest_on, pm) ==
    [op |-> "move", id |-> id, status |-> status, reason |-> reason,
     destination |-> destination, dry_run |-> dry_run, discard |-> discard,
     rename |-> rename, checksum_manifest |-> manifest_on,
     verify |-> pm.verify, cleanup |-> pm.cleanup, copied |-> pm.copied,
     error |-> pm.error]

\* The success field of the result move_file returns with a status.
Success(status) == status \in {"moved", "dry_run"}

NoMove == Moved(<<>>, None, None, Unread, Unread, NoContent)

\* Variant of the preconditions that looks for the source file before the status.
PreconditionSourceFirst(enabled, id) ==
    IF enabled = Off THEN "disabled"
    ELSE IF ~Exists(id) THEN "not_found"
    ELSE IF ~FileExists(uploads[id].quarantine_path) THEN "source_missing"
    ELSE IF uploads[id].status \notin VerifiedStatuses THEN "invalid_state"
    ELSE "ok"

\* The first precondition of move_file that fails, "ok" when none does.
Precondition(enabled, id) ==
    IF enabled = Off THEN "disabled"
    ELSE IF ~Exists(id) THEN "not_found"
    ELSE IF uploads[id].status \notin VerifiedStatuses THEN "invalid_state"
    ELSE IF ~FileExists(uploads[id].quarantine_path) THEN "source_missing"
    ELSE "ok"

\* A precondition failed: the status is returned, nothing is written.
MoveRejected(id, status) ==
    /\ call' = MoveCall(id, status, None, NoPath, Unread, Unread, Unread, Unread, NoMove)
    /\ UNCHANGED <<uploads, fs, dirs, manifest>>

\* scalar_one_or_none() on several matching rows raises MultipleResultsFound,
\* which move_file does not catch.
MoveRaised(id, dry_run) ==
    /\ call' = MoveCall(id, "exception", "MultipleResultsFound", NoPath, dry_run,
                        Unread, Unread, Unread, NoMove)
    /\ UNCHANGED <<uploads, fs, dirs, manifest>>

\* str(e) of an exception raised by db_session.commit()
SQLAlchemyError == "SQLAlchemyError"

\* db_session.commit() raises: the transaction is rolled back, the record is
\* left as stored, and the exception leaves move_file.
CommitRaised(id, dry_run, discard, rename, pm) ==
    /\ call' = MoveCall(id, "exception", SQLAlchemyError, NoPath, dry_run, discard,
                        rename, Unread, pm)
    /\ UNCHANGED <<uploads, manifest>>

\* write_to_manifest raises after the record was committed: the exception
\* leaves move_file.
ManifestRaised(id, dry_run, discard, rename, pm) ==
    /\ manifest' \in FailedManifestWrites(manifest)
    /\ call' = MoveCall(id, "exception", OSError, NoPath, dry_run, discard, rename, On, pm)

\* The record is marked duplicate_discarded, committed, and (for an exact
\* duplicate) entered in the manifest.  The path that follows
\* exact_hash_match_filesystem in duplicate_reason is left out.
Discarded(id, dry_run, discard, rename, reason, duplicate_of, write_manifest) ==
    /\ \/ CommitRaised(id, dry_run, discard, rename, NoMove)
       \/ /\ uploads' = [uploads EXCEPT ![id] =
                 [@ EXCEPT !.status = "duplicate_discarded", !.is_duplicate = TRUE,
                           !.duplicate_of = duplicate_of, !.duplicate_reason = reason]]
          /\ \E m \in (IF write_manifest THEN Flags ELSE {Unread}) :
                \/ /\ manifest' = (IF write_manifest
                                    THEN WriteToManifest(manifest, m, ManifestRow(id, "discarded"))
                                    ELSE manifest)
                   /\ call' = MoveCall(id, "duplicate_discarded", reason, NoPath, dry_run,
                                       discard, rename, m, NoMove)
                \/ /\ m = On
                   /\ ManifestRaised(id, dry_run, discard, rename, NoMove)

\* Variant of the discard that deletes the quarantined file.
MoveDiscardedDeletingSource(id, dry_run, discard, rename, reason, duplicate_of, write_manifest) ==
    /\ fs' = Remove(fs, uploads[id].quarantine_path)
    /\ UNCHANGED dirs
    /\ Discarded(id, dry_run, discard, rename, reason, duplicate_of, write_manifest)

\* A discard of move_file: no file is touched, the source stays in quarantine.
MoveDiscarded(id, dry_run, discard, rename, reason, duplicate_of, write_manifest) ==
    /\ UNCHANGED <<fs, dirs>>
    /\ Discarded(id, dry_run, discard, rename, reason, duplicate_of, write_manifest)

\* STEPS 4-7 of move_file: destination, dry run, physical move, record, manifest.
MoveTo(id, dry_run, discard, rename, filename) ==
    LET u == uploads[id]
        source == u.quarantine_path
        destination == ResolveDestination(filename)
        renamed == rename = On
    IN
    /\ dirs' = dirs \cup {ProcessedDir}
    /\ IF dry_run = On THEN
           /\ call' = MoveCall(id, "dry_run", None, destination, dry_run, discard,
                               rename, Unread, NoMove)
           /\ UNCHANGED <<uploads, fs, manifest>>
       ELSE
           /\ \E pm \in PhysicalMoves(source, destination, u.hash) :
                 /\ fs' = pm.fs
                 /\ \/ CommitRaised(id, dry_run, discard, rename, pm)
                    \/ IF pm.outcome = "integrity_failed" THEN
                        /\ uploads' = [uploads EXCEPT ![id] =
                               [@ EXCEPT !.status = "move_failed",
                                         !.error_message = "Integrity check failed after move"]]
                        /\ call' = MoveCall(id, "integrity_failed", None, NoPath, dry_run,
                                            discard, rename, Unread, pm)
                        /\ UNCHANGED manifest
                       ELSE IF pm.outcome = "move_failed" THEN
                        /\ uploads' = [uploads EXCEPT ![id] =
                               [@ EXCEPT !.status = "move_failed", !.error_message = pm.error]]
                        /\ call' = MoveCall(id, "move_failed", None, NoPath, dry_run,
                                            discard, rename, Unread, pm)
                        /\ UNCHANGED manifest
                       ELSE
                        /\ uploads' = [uploads EXCEPT ![id] =
                               [@ EXCEPT !.status = "moved", !.final_path = destination,
                                         !.moved_at = TRUE,
                                         !.is_duplicate = IF renamed THEN FALSE ELSE @,
                                         !.duplicate_reason =
                                             IF renamed THEN "name_conflict_renamed" ELSE @]]
                        /\ \E m \in Flags :
                              \/ /\ manifest' = WriteToManifest(manifest, m,
                                        ManifestRow(id, IF renamed THEN "renamed" ELSE "moved"))
                                 /\ call' = MoveCall(id, "moved", None, destination, dry_run,
                                                     discard, rename, m, pm)
                              \/ /\ m = On
                                 /\ ManifestRaised(id, dry_run, discard, rename, pm)

\* STEPS 1-3 of move_file: database duplicate, filesystem duplicate, name conflict.
MoveChecked(id, dry_run) ==
    LET u == uploads[id]
        db_duplicates == CheckDuplicatesByHash(u.hash, id)
        fs_duplicates == CheckDuplicatesInFilesystem(u.hash)
        conflicts == CheckNameConflict(u.meta, id)
    IN
    IF Cardinality(db_duplicates) > 1 THEN
        MoveRaised(id, dry_run)
    ELSE
    \E discard \in (IF db_duplicates # {} \/ fs_duplicates # {} THEN Flags ELSE {Unread}) :
       IF db_duplicates # {} /\ discard = On THEN
           \E j \in db_duplicates :
              MoveDiscarded(id, dry_run, discard, Unread, "exact_hash_match_database", j, TRUE)
       ELSE IF fs_duplicates # {} /\ discard = On THEN
           MoveDiscarded(id, dry_run, discard, Unread, "exact_hash_match_filesystem",
                         u.duplicate_of, TRUE)
       ELSE IF conflicts # {} THEN
           \/ \E t \in Timestamps :
                 MoveTo(id, dry_run, discard, On, GenerateRenamedFilename(u.meta, t))
           \/ \E j \in conflicts :
                 MoveDiscarded(id, dry_run, discard, Off, "name_conflict_rename_disabled", j, FALSE)
       ELSE
           MoveTo(id, dry_run, discard, Unread, u.name)

\* MoverService.move_file(upload_uuid)
MoveFile(id) ==
    \E enabled \in Flags :
       LET pre == Precondition(enabled, id) IN
       IF pre # "ok" THEN MoveRejected(id, pre)
       ELSE \E dry_run \in Flags : MoveChecked(id, dry_run)

\* ------------------------------------------- move_file, await by await
\* move_file gives up control at each await: after the record is loaded and
\* the preconditions are checked on it, after the duplicate query of STEP 1,
\* after the duplicate checks, after the copy (await verify_integrity) and at
\* each commit.  A call works on the
\* record object it loaded and never reads the status again.  Input/output
\* faults other than those the other call causes are left out here.
MoveTask(pc, id, filename, destination, rename, acted, result) ==
    [pc |-> pc, id |-> id, filename |-> filename, destination |-> destination,
     rename |-> rename, acted |-> acted, result |-> result]

Finish(p, id, destination, acted, result) ==
    tasks' = [tasks EXCEPT ![p] = MoveTask("done", id, NoPath, destination, Unread, acted, result)]

\* select(Upload) and the preconditions, up to the first duplicate query.
MoveLoad(p, id) ==
    /\ tasks[p].pc = "idle"
    /\ LET pre == Precondition(On, id) IN
       IF pre # "ok" THEN Finish(p, id, NoPath, FALSE, pre)
       ELSE tasks' = [tasks EXCEPT ![p] =
                         MoveTask("loaded", id, NoPath, NoPath, Unread, FALSE, None)]
    /\ UNCHANGED <<uploads, fs, dirs, manifest, call, requests>>

\* A discard: the status is written over whatever the record holds by now.
TaskDiscarded(p, id, reason, duplicate_of, write_manifest) ==
    /\ uploads' = [uploads EXCEPT ![id] =
           [@ EXCEPT !.status = "duplicate_discarded", !.is_duplicate = TRUE,
                     !.duplicate_of = duplicate_of, !.duplicate_reason = reason]]
    /\ IF write_manifest
       THEN \E m \in Flags :
               manifest' = WriteToManifest(manifest, m, ManifestRow(id, "discarded"))
       ELSE UNCHANGED manifest
    /\ Finish(p, id, NoPath, TRUE, "duplicate_discarded")
    /\ UNCHANGED <<fs, dirs, call, requests>>

\* The call between the query of STEP 1 and what it does with the answer.
QueryTask(id, db_duplicates) ==
    [pc |-> "queried", id |-> id, filename |-> NoPath, destination |-> NoPath,
     rename |-> Unread, acted |-> FALSE, result |-> None,
     db_duplicates |-> db_duplicates]

\* STEP 1: await check_duplicates_by_hash, on the store as it is by now.
MoveQuery(p) ==
    /\ tasks[p].pc = "loaded"
    /\ LET id == tasks[p].id IN
       tasks' = [tasks EXCEPT ![p] =
                    QueryTask(id, CheckDuplicatesByHash(uploads[id].hash, id))]
    /\ UNCHANGED <<uploads, fs, dirs, manifest, call, requests>>

\* The answer of STEP 1 acted upon, and STEPS 2-3 on the store and the
\* filesystem as they are by now.
MoveDecide(p) ==
    /\ tasks[p].pc = "queried"
    /\ LET id == tasks[p].id
           u == uploads[id]
           db_duplicates == tasks[p].db_duplicates
           fs_duplicates == CheckDuplicatesInFilesystem(u.hash)
           conflicts == CheckNameConflict(u.meta, id)
           Checked(filename, rename) ==
               /\ tasks' = [tasks EXCEPT ![p] =
                      MoveTask("checked", id, filename, NoPath, rename, FALSE, None)]
               /\ UNCHANGED <<uploads, fs, dirs, manifest, call, requests>>
       IN
       IF Cardinality(db_duplicates) > 1 THEN
           /\ Finish(p, id, NoPath, FALSE, "exception")
           /\ UNCHANGED <<uploads, fs, dirs, manifest, call, requests>>
       ELSE
       \E discard \in (IF db_duplicates # {} \/ fs_duplicates # {} THEN Flags ELSE {Unread}) :
          IF db_duplicates # {} /\ discard = On THEN
              \E j \in db_duplicates :
                 TaskDiscarded(p, id, "exact_hash_match_database", j, TRUE)
          ELSE IF fs_duplicates # {} /\ discard = On THEN
              TaskDiscarded(p, id, "exact_hash_match_filesystem", u.duplicate_of, TRUE)
          ELSE IF conflicts # {} THEN
              \/ \E t \in Timestamps : Checked(GenerateRenamedFilename(u.meta, t), On)
              \/ \E j \in conflicts :
                    TaskDiscarded(p, id, "name_conflict_rename_disabled", j, FALSE)
          ELSE Checked(u.name, Unread)

\* The except branch of STEP 5: status move_failed is committed.
TaskFailed(p, id, destination, acted) ==
    /\ uploads' = [uploads EXCEPT ![id] =
           [@ EXCEPT !.status = "move_failed", !.error_message = OSError]]
    /\ Finish(p, id, destination, acted, "move_failed")

\* STEP 4 and the copy of STEP 5, up to await verify_integrity or, without
\* verification, through the unlink up to the commit.  copy2 raises when the
\* source is gone.
MoveCopy(p) ==
    /\ tasks[p].pc = "checked"
    /\ dirs' = dirs \cup {ProcessedDir}
    /\ LET id == tasks[p].id
           source == uploads[id].quarantine_path
           destination == ResolveDestination(tasks[p].filename)
           At(pc) == tasks' = [tasks EXCEPT ![p] =
                        MoveTask(pc, id, tasks[p].filename, destination, tasks[p].rename,
                                 TRUE, None)]
       IN \E dry_run \in Flags :
             IF dry_run = On THEN
                 /\ Finish(p, id, destination, FALSE, "dry_run")
                 /\ UNCHANGED <<uploads, fs>>
             ELSE IF ~FileExists(source) THEN
                 /\ TaskFailed(p, id, NoPath, FALSE)
                 /\ UNCHANGED fs
             ELSE \E verify \in Flags, cleanup \in Flags :
                     LET copied == Put(fs, destination, fs[source]) IN
                     /\ verify = On => cleanup = On
                     /\ fs' = IF verify = Off /\ cleanup = On
                              THEN Remove(copied, source) ELSE copied
                     /\ At(IF verify = On THEN "copied" ELSE "placed")
                     /\ UNCHANGED uploads
    /\ UNCHANGED <<manifest, call, requests>>

\* The rest of STEP 5 after await verify_integrity: a mismatching copy is
\* unlinked; else the source is unlinked, which raises when it is gone.
MoveVerify(p) ==
    /\ tasks[p].pc = "copied"
    /\ LET id == tasks[p].id
           source == uploads[id].quarantine_path
           destination == tasks[p].destination
           Placed == tasks' = [tasks EXCEPT ![p] = [@ EXCEPT !.pc = "placed"]]
       IN IF fs[destination] # uploads[id].hash THEN
              /\ fs' = Remove(fs, destination)
              /\ uploads' = [uploads EXCEPT ![id] =
                     [@ EXCEPT !.status = "move_failed",
                               !.error_message = "Integrity check failed after move"]]
              /\ Finish(p, id, NoPath, TRUE, "integrity_failed")
          ELSE \E cleanup \in Flags :
                  IF cleanup = Off THEN Placed /\ UNCHANGED <<uploads, fs>>
                  ELSE IF FileExists(source) THEN
                      /\ fs' = Remove(fs, source)
                      /\ Placed
                      /\ UNCHANGED uploads
                  ELSE
                      /\ TaskFailed(p, id, destination, TRUE)
                      /\ UNCHANGED fs
    /\ UNCHANGED <<dirs, manifest, call, requests>>

\* STEPS 6 and 7: the commit of status moved and the manifest row.
MoveCommit(p) ==
    /\ tasks[p].pc = "placed"
    /\ LET id == tasks[p].id
           renamed == tasks[p].rename = On
       IN /\ uploads' = [uploads EXCEPT ![id] =
                 [@ EXCEPT !.status = "moved", !.final_path = tasks[p].destination,
                           !.moved_at = TRUE,
                           !.is_duplicate = IF renamed THEN FALSE ELSE @,
                           !.duplicate_reason = IF renamed THEN "name_conflict_renamed" ELSE @]]
          /\ \E m \in Flags :
                manifest' = WriteToManifest(manifest, m,
                               ManifestRow(id, IF renamed THEN "renamed" ELSE "moved"))
          /\ Finish(p, id, tasks[p].destination, TRUE, "moved")
    /\ UNCHANGED <<fs, dirs, call, requests>>

\* ------------------------------------ cleanup_old_files, await by await
\* cleanup_old_files gives up control while its query runs and at its
\* commit.  The loop between the two runs without a pause, on the record
\* objects the query returned: it unlinks the files and sets the status on
\* the objects, and the commit writes those statuses to the table.
SweepTask(pc, old_uploads, selected, target_bytes_to_free, marked) ==
    [pc |-> pc, old_uploads |-> old_uploads, selected |-> selected,
     target_bytes_to_free |-> target_bytes_to_free, marked |-> marked]

CleanupStatuses == {"quarantined", "scanning", "scan_failed", "infected"}

\* The query: the candidates, oldest first, with the status each one has.
SweepSelect(older, target_bytes_to_free) ==
    /\ tasks[Sweeper].pc = "idle"
    /\ LET old_uploads == Candidates(CleanupStatuses, older) IN
       tasks' = [tasks EXCEPT ![Sweeper] =
                    SweepTask("selected", old_uploads,
                              [i \in DOMAIN old_uploads |-> uploads[old_uploads[i]].status],
                              target_bytes_to_free, {})]
    /\ UNCHANGED <<uploads, fs, dirs, manifest, call, requests>>

\* The loop: files are unlinked, the records to be marked are collected.
SweepLoop ==
    /\ tasks[Sweeper].pc = "selected"
    /\ \E failing \in Failing :
          LET old_uploads == tasks[Sweeper].old_uploads
              loaded == [id \in DOMAIN uploads |-> [uploads[id] EXCEPT !.error_message = None]]
              done == CleanupOld(old_uploads, loaded, fs, 0,
                                 tasks[Sweeper].target_bytes_to_free, failing)
              marked == {old_uploads[i] : i \in
                           {k \in DOMAIN old_uploads :
                               done.uploads[old_uploads[k]].error_message = "Auto-deleted"}}
          IN /\ fs' = done.fs
             /\ tasks' = [tasks EXCEPT ![Sweeper] = [@ EXCEPT !.pc = "swept", !.marked = marked]]
    /\ UNCHANGED <<uploads, dirs, manifest, call, requests>>

\* The commit: status and error_message of the marked records are written.
SweepCommit ==
    /\ tasks[Sweeper].pc = "swept"
    /\ uploads' = [id \in DOMAIN uploads |->
                      IF id \in tasks[Sweeper].marked
                      THEN [uploads[id] EXCEPT !.status = "auto_deleted",
                                               !.error_message = "Auto-deleted"]
                      ELSE uploads[id]]
    /\ tasks' = [tasks EXCEPT ![Sweeper] = [@ EXCEPT !.pc = "done"]]
    /\ UNCHANGED <<fs, dirs, manifest, call, requests>>

\* ------------------------------------------- scan_file, await by await
\* A scan that reaches the scanner gives up control at each request to
\* VirusTotal and at each sleep of poll_analysis.  The task keeps the record,
\* the polling attempts made, config.scanning.max_retries and the verdict.
ScanTask(pc, id, attempt, max_retries, scan_status) ==
    [pc |-> pc, id |-> id, attempt |-> attempt, max_retries |-> max_retries,
     scan_status |-> scan_status]

\* What parse_analysis_results makes of a report.
ParsedStatuses == {"malicious", "suspicious", "undetected", "clean", "error"}

\* Variant of the loop bound that allows one more attempt.
ExhaustedLate(attempt, max_retries) == attempt >= max_retries + 1

\* for attempt in range(1, max_retries + 1) is used up.
Exhausted(attempt, max_retries) == attempt >= max_retries

\* _scan_file_internal up to the call of the scanner: the record is found,
\* not yet clean, no stored result is reused; status scanning is committed.
ScanBegin(id) ==
    /\ tasks[Scanner].pc \in {"idle", "done"}
    /\ Exists(id)
    /\ uploads[id].scan_result \notin {"safe", "clean"}
    /\ \E auto_skip_known_hashes \in Flags :
          GetScanHistory(uploads[id].hash, auto_skip_known_hashes) = NoId
    /\ uploads' = [uploads EXCEPT ![id] = [@ EXCEPT !.status = "scanning"]]
    /\ \E max_retries \in 0..MaxRetries :
          tasks' = [tasks EXCEPT ![Scanner] = ScanTask("started", id, 0, max_retries, None)]
    /\ UNCHANGED <<fs, dirs, manifest, call, requests>>

\* scan_file before the polling: no API key or a failed upload is an error,
\* a report known for the hash is parsed, else the file is uploaded and an
\* analysis id is obtained.
ScanSubmit ==
    /\ tasks[Scanner].pc = "started"
    /\ \/ \E scan_status \in ParsedStatuses :
             tasks' = [tasks EXCEPT ![Scanner] =
                          [@ EXCEPT !.pc = "finished", !.scan_status = scan_status]]
       \/ tasks' = [tasks EXCEPT ![Scanner] = [@ EXCEPT !.pc = "polling"]]
    /\ UNCHANGED <<uploads, fs, dirs, manifest, call, requests>>

\* One turn of the loop of poll_analysis: get_analysis fails or the analysis
\* is not completed, and the loop sleeps; or the completed report is parsed.
PollAttempt ==
    /\ tasks[Scanner].pc = "polling"
    /\ ~Exhausted(tasks[Scanner].attempt, tasks[Scanner].max_retries)
    /\ \/ tasks' = [tasks EXCEPT ![Scanner] = [@ EXCEPT !.attempt = @ + 1]]
       \/ \E scan_status \in ParsedStatuses :
             tasks' = [tasks EXCEPT ![Scanner] =
                          [@ EXCEPT !.attempt = @ + 1, !.pc = "finished",
                                    !.scan_status = scan_status]]
    /\ UNCHANGED <<uploads, fs, dirs, manifest, call, requests>>

\* poll_analysis returns None after its last attempt: scan_file answers pending.
PollTimeout ==
    /\ tasks[Scanner].pc = "polling"
    /\ Exhausted(tasks[Scanner].attempt, tasks[Scanner].max_retries)
    /\ tasks' = [tasks EXCEPT ![Scanner] =
                    [@ EXCEPT !.pc = "finished", !.scan_status = "pending"]]
    /\ UNCHANGED <<uploads, fs, dirs, manifest, call, requests>>

\* _scan_file_internal after the scanner: the verdict is stored and committed.
ScanStore ==
    /\ tasks[Scanner].pc = "finished"
    /\ LET id == tasks[Scanner].id
           scan_status == tasks[Scanner].scan_status
           stored == VerdictResult(scan_status)
       IN \E deleted \in BOOLEAN :
             LET remove == /\ scan_status = "malicious" /\ deleted
                           /\ FileExists(uploads[id].quarantine_path)
             IN /\ scan_status # "malicious" => ~deleted
                /\ uploads' = [uploads EXCEPT ![id] =
                       [@ EXCEPT !.scan_result = stored[1],
                                 !.scanned_at = requests + 1,
                                 !.status = IF remove THEN "deleted" ELSE stored[2]]]
                /\ fs' = IF remove THEN Remove(fs, uploads[id].quarantine_path) ELSE fs
                /\ call' = [op |-> "scan", status |-> "completed", id |-> id,
                            scan_status |-> scan_status, previous |-> NoId]
    /\ tasks' = [tasks EXCEPT ![Scanner] = [@ EXCEPT !.pc = "done"]]
    /\ UNCHANGED <<dirs, manifest, requests>>

\* ----------------------------------------------------------------- system
\* One request is served at a time, at most `limit` in a run.
Serve(limit, request) ==
    /\ requests < limit
    /\ requests' = requests + 1
    /\ request
    /\ UNCHANGED tasks

\* The requests of the API, over the record ids 1..records.
PostUpload(records, contents) ==
    \E content \in contents, name \in FileNames :
       /\ Len(uploads) < records
       /\ Serve(MaxRequests, SaveToQuarantine(content, name))
PutMetadata(records, metas) ==
    \E id \in 1..records, meta \in metas : Serve(MaxRequests, UpdateMetadata(id, meta))
PostMove(records) == \E id \in 1..records : Serve(MaxRequests, MoveFile(id))

\* Intake, metadata verification and the mover.
Next ==
    \/ PostUpload(MaxUploads, Contents)
    \/ PutMetadata(MaxUploads, Metas \cup {Incomplete})
    \/ PostMove(MaxUploads)

Spec == Init /\ [][Next]_vars

\* The same requests over MaxCopies uploads of one content under one title.
CopiesNext ==
    \/ PostUpload(MaxCopies, {1})
    \/ PutMetadata(MaxCopies, {1})
    \/ PostMove(MaxCopies)

Copies == Init /\ [][CopiesNext]_vars

\* Every operation on a record: upload, scan, metadata update, move and the
\* two cleanup sweeps, in runs of LifecycleRequests requests.
LifeUpload ==
    \E content \in Contents, name \in FileNames :
       /\ Len(uploads) < MaxUploads
       /\ Serve(LifecycleRequests, SaveToQuarantine(content, name))
LifeScan == \E id \in Ids : Serve(LifecycleRequests, ScanFile(id))
LifeMetadata == \E id \in Ids, meta \in Metas : Serve(LifecycleRequests, UpdateMetadata(id, meta))
LifeMove == \E id \in Ids : Serve(LifecycleRequests, MoveFile(id))
LifeCleanup ==
    \E older \in 0..Len(uploads), target \in 0..MaxTarget :
       Serve(LifecycleRequests, CleanupOldFiles(older, target))
LifeEmergency == \E target \in 1..MaxTarget : Serve(LifecycleRequests, EmergencyCleanup(target))

LifecycleNext ==
    \/ LifeUpload \/ LifeScan \/ LifeMetadata \/ LifeMove \/ LifeCleanup \/ LifeEmergency

Lifecycle == Init /\ [][LifecycleNext]_vars

\* The free-space check of the Disk Guard on its own, as upload_file calls it:
\* on the quarantine volume, for a non-empty file, under the thresholds of
\* the configuration.
SpaceCheck ==
    \E disk \in Disks, raises \in BOOLEAN, file_size \in 1..MaxFileSize,
       min_free_percent \in Percents, reserve_bytes \in Reserves :
       LET usage == GetDiskUsage(disk, raises)
           checked == CheckDiskSpaceAvailable(usage, file_size, min_free_percent, reserve_bytes)
       IN Serve(MaxChecks,
             /\ call' = [op |-> "check_disk_space_available", total |-> usage.total,
                         free |-> usage.free, required_bytes |-> file_size,
                         min_free_percent |-> min_free_percent,
                         reserve_bytes |-> reserve_bytes,
                         allowed |-> checked.allowed, reason |-> checked.reason]
             /\ UNCHANGED <<uploads, fs, dirs, manifest>>)

DiskGuardNext == SpaceCheck

DiskGuard == Init /\ [][DiskGuardNext]_vars

\* Intake: files are quarantined by save_to_quarantine and scanned, and
\* POST /upload is served.
IntakeSave ==
    \E content \in Contents, name \in FileNames :
       /\ Len(uploads) < MaxUploads
       /\ Serve(IntakeRequests, SaveToQuarantine(content, name))
IntakeScan == \E id \in Ids : Serve(IntakeRequests, ScanFile(id))
IntakeUpload == Serve(IntakeRequests, UploadFile)

IntakeNext == IntakeSave \/ IntakeScan \/ IntakeUpload

Intake == Init /\ [][IntakeNext]_vars

\* Uploads, metadata updates and moves, with the cleanup sweeps running
\* beside them for ever: periodic_cleanup_task calls cleanup_old_files every
\* cleanup_interval_minutes, and as time passes every record is older than
\* the cutoff; emergency_cleanup is run whenever the disk is critically low.
ReclaimUpload ==
    \E content \in Contents, name \in FileNames :
       /\ Len(uploads) < MaxUploads
       /\ Serve(ReclaimRequests, SaveToQuarantine(content, name))
ReclaimMetadata == \E id \in Ids, meta \in Metas : Serve(ReclaimRequests, UpdateMetadata(id, meta))
ReclaimMove == \E id \in Ids : Serve(ReclaimRequests, MoveFile(id))
PeriodicCleanup ==
    /\ \E older \in 0..Len(uploads) : CleanupOldFiles(older, 0)
    /\ UNCHANGED <<requests, tasks>>
FullCleanup == CleanupOldFiles(Len(uploads), 0) /\ UNCHANGED <<requests, tasks>>
EmergencySweep ==
    /\ \E target \in 1..MaxTarget : EmergencyCleanup(target)
    /\ UNCHANGED <<requests, tasks>>

ReclaimNext ==
    \/ ReclaimUpload \/ ReclaimMetadata \/ ReclaimMove \/ PeriodicCleanup \/ EmergencySweep

Reclaim ==
    Init /\ [][ReclaimNext]_vars /\ WF_vars(FullCleanup) /\ WF_vars(EmergencySweep)

\* Files are quarantined, their metadata saved, and the duplicate report is
\* asked for.
DetectSave ==
    \E content \in Contents, name \in FileNames :
       /\ Len(uploads) < MaxUploads
       /\ Serve(DetectRequests, SaveToQuarantine(content, name))
DetectMetadata == \E id \in Ids, meta \in Metas : Serve(DetectRequests, UpdateMetadata(id, meta))
DetectCheck == \E id \in Ids : Serve(DetectRequests, CheckDuplicate(id))

DetectNext == DetectSave \/ DetectMetadata \/ DetectCheck

Detect == Init /\ [][DetectNext]_vars

\* Uploads under the names a client may send, verified and moved.
TraversalUpload ==
    \E content \in Contents, name \in ClientNames :
       /\ Len(uploads) < MaxUploads
       /\ Serve(TraversalRequests, SaveToQuarantine(content, name))
TraversalMetadata ==
    \E id \in Ids, meta \in Metas : Serve(TraversalRequests, UpdateMetadata(id, meta))
TraversalMove == \E id \in Ids : Serve(TraversalRequests, MoveFile(id))

TraversalNext == TraversalUpload \/ TraversalMetadata \/ TraversalMove

Traversal == Init /\ [][TraversalNext]_vars

\* Files are quarantined and scanned, the scan followed request by request.
\* Every request of the scanner to VirusTotal has a timeout and every sleep
\* ends, so a scan in flight takes its next step.
PollingUpload ==
    \E content \in Contents, name \in FileNames :
       /\ Len(uploads) < MaxUploads
       /\ Serve(PollRequests, SaveToQuarantine(content, name))
PollingBegin == \E id \in Ids : ScanBegin(id)

PollingNext == PollingUpload \/ PollingBegin \/ ScanSubmit \/ PollAttempt \/ PollTimeout \/ ScanStore

Polling ==
    /\ Init /\ [][PollingNext]_vars
    /\ WF_vars(ScanSubmit \/ PollAttempt \/ PollTimeout \/ ScanStore)

\* Two calls of move_file in flight at once, on records uploaded and verified
\* before either call starts.
AllIdle == \A t \in Tasks : tasks[t].pc = "idle"
RaceUpload ==
    \E content \in Contents, name \in FileNames :
       /\ AllIdle
       /\ Len(uploads) < MaxUploads
       /\ Serve(RaceRequests, SaveToQuarantine(content, name))
RaceMetadata ==
    \E id \in Ids, meta \in Metas : AllIdle /\ Serve(RaceRequests, UpdateMetadata(id, meta))
RaceLoad == \E p \in Movers, id \in Ids : MoveLoad(p, id)
RaceQuery == \E p \in Movers : MoveQuery(p)
RaceDecide == \E p \in Movers : MoveDecide(p)
RaceCopy == \E p \in Movers : MoveCopy(p)
RaceVerify == \E p \in Movers : MoveVerify(p)
RaceCommit == \E p \in Movers : MoveCommit(p)

MoveRaceNext ==
    \/ RaceUpload \/ RaceMetadata
    \/ RaceLoad \/ RaceQuery \/ RaceDecide \/ RaceCopy \/ RaceVerify \/ RaceCommit

MoveRace == Init /\ [][MoveRaceNext]_vars

\* One cleanup sweep in flight while uploads, scans, metadata updates, moves
\* and other cleanups are served.
BesideUpload ==
    \E content \in Contents, name \in FileNames :
       /\ Len(uploads) < MaxUploads
       /\ Serve(SweepRequests, SaveToQuarantine(content, name))
BesideScan == \E id \in Ids : Serve(SweepRequests, ScanFile(id))
BesideMetadata == \E id \in Ids, meta \in Metas : Serve(SweepRequests, UpdateMetadata(id, meta))
BesideMove == \E id \in Ids : Serve(SweepRequests, MoveFile(id))
BesideCleanup ==
    \E older \in 0..Len(uploads), target \in 0..MaxTarget :
       Serve(SweepRequests, CleanupOldFiles(older, target))
SweepBegin == \E older \in 0..Len(uploads), target \in 0..MaxTarget : SweepSelect(older, target)

SweepRaceNext ==
    \/ BesideUpload \/ BesideScan \/ BesideMetadata \/ BesideMove \/ BesideCleanup
    \/ SweepBegin \/ SweepLoop \/ SweepCommit

SweepRace == Init /\ [][SweepRaceNext]_vars

\* ----------------------------------------------------------------- claims
\* The step is a call of move_file (on the record call'.id).
MoveStep == call'.op = "move"
Rejections == {"disabled", "not_found", "invalid_state", "source_missing"}
\* The call passed the preconditions and did not raise to its caller.
Proceeded == MoveStep /\ call'.status \notin Rejections \cup {"exception"}
Source == uploads[call'.id].quarantine_path
SourceKept == Source \in DOMAIN fs' /\ fs'[Source] = uploads[call'.id].hash

\* The names a_1, a_2, ... of a filename in the processed folder
Suffixed(filename, k) == <<ProcessedDir, Append(filename, k)>>

\* destination is the first free name for filename in the filesystem files.
IsFirstFree(files, filename, destination) ==
    /\ destination \notin DOMAIN files
    /\ \/ destination = <<ProcessedDir, filename>>
       \/ /\ <<ProcessedDir, filename>> \in DOMAIN files
          /\ \E k \in 1..MaxRequests :
                /\ destination = Suffixed(filename, k)
                /\ \A j \in 1..(k - 1) : Suffixed(filename, j) \in DOMAIN files

\* The filenames move_file may resolve for the record: its original filename,
\* or a generated one when it renames.
Filenames(id) ==
    IF call'.rename = On
    THEN {GenerateRenamedFilename(uploads[id].meta, t) : t \in Timestamps}
    ELSE {uploads[id].name}

\* The status move_file returns when its first failing precondition is the
\* one named, given the record store and filesystem before the call.
FirstFailing(id) ==
    IF ~Exists(id) THEN "not_found"
    ELSE IF uploads[id].status \notin {"metadata_verified", "safe", "clean"} THEN "invalid_state"
    ELSE IF uploads[id].quarantine_path \notin DOMAIN fs THEN "source_missing"
    ELSE "none"

\* The other kept records with the content of record id, and the files
\* (hidden ones included, or visible only) with its content under the
\* unsorted and library directories, before the call.
HashMatches(id) ==
    {j \in DOMAIN uploads \ {id} :
        /\ uploads[j].hash = uploads[id].hash
        /\ uploads[j].status \in {"moved", "safe", "metadata_verified"}}
FileMatches(id) ==
    {p \in DOMAIN fs :
        p[1] \in {UnsortedDir, ProcessedDir, LibraryDir} /\ fs[p] = uploads[id].hash}
VisibleFileMatches(id) == {p \in FileMatches(id) : p[2][1] # "."}
\* The other kept records with the title and author of record id.
TitleMatches(id) ==
    {j \in DOMAIN uploads \ {id} :
        /\ uploads[j].meta = uploads[id].meta
        /\ uploads[j].status \in {"moved", "safe", "metadata_verified"}}
\* The call went past the preconditions (it may have raised).
Accepted == MoveStep /\ call'.status \notin Rejections

ExactReasons == {"exact_hash_match_database", "exact_hash_match_filesystem"}

\* C1 (as stated): whenever the copy made by move_file differs from the
\* record's content_hash and integrity verification is enabled, the call
\* returns integrity_failed, the record ends as move_failed, the source is
\* still there with its content, and the corrupt copy is gone, so that the
\* filesystem is what it was before the call.
C1_AsStated ==
    [][(Proceeded /\ call'.verify = On /\ call'.copied = Garbage)
          => /\ SourceKept
             /\ fs' = fs
             /\ uploads'[call'.id].status = "move_failed"
             /\ call'.status = "integrity_failed"]_vars

\* C1 (amended): whenever the copy differs from content_hash and integrity
\* verification is enabled, the source is still there with its content and
\* the record ends as move_failed, never moved; the call returns
\* integrity_failed with the corrupt copy removed, or, when hashing or
\* removing the copy raised, move_failed.
C1_IntegrityFailureKeepsSource ==
    [][(Proceeded /\ call'.verify = On /\ call'.copied = Garbage)
          => /\ SourceKept
             /\ uploads'[call'.id].status = "move_failed"
             /\ call'.status \in {"integrity_failed", "move_failed"}
             /\ call'.status = "integrity_failed" => fs' = fs]_vars

\* C1 witness: a call ended in integrity_failed on a corrupt copy.
C1_Witness ==
    /\ call.op = "move" /\ call.status = "integrity_failed"
    /\ call.verify = On /\ call.copied = Garbage
    /\ uploads[call.id].status = "move_failed"
    /\ uploads[call.id].quarantine_path \in DOMAIN fs

\* C2 (as stated, for a match in the record store): a call of move_file on a
\* verified record with the content of another kept record, with
\* discard-on-exact-duplicate enabled, returns duplicate_discarded, leaves
\* the record duplicate_discarded with is_duplicate set, duplicate_of a
\* matching record and the database reason, and leaves the filesystem as it was.
C2_AsStated ==
    [][(Accepted /\ HashMatches(call'.id) # {} /\ call'.discard # Off)
          => /\ call'.status = "duplicate_discarded"
             /\ uploads'[call'.id].status = "duplicate_discarded"
             /\ uploads'[call'.id].is_duplicate
             /\ uploads'[call'.id].duplicate_of \in HashMatches(call'.id)
             /\ uploads'[call'.id].duplicate_reason = "exact_hash_match_database"
             /\ fs' = fs]_vars

\* C3: a call of move_file leaves every file of the processed folder where
\* it was with the content it had, and the destination it moves to (or
\* reports in a dry run) is the resolved filename if that is free, else the
\* first free name with a numeric suffix.
C3_NeverOverwrites ==
    [][MoveStep =>
          /\ \A p \in FilesIn(ProcessedDir) : p \in DOMAIN fs' /\ fs'[p] = fs[p]
          /\ call'.status \in {"moved", "dry_run"} =>
                \E filename \in Filenames(call'.id) :
                   IsFirstFree(fs, filename, call'.destination)]_vars

\* C3 witness: a file was moved under the suffixed name a_1 next to a.
C3_Witness ==
    /\ call.op = "move" /\ call.status = "moved"
    /\ call.destination = Suffixed(<<"a">>, 1)
    /\ <<ProcessedDir, <<"a">>>> \in DOMAIN fs
    /\ call.destination \in DOMAIN fs

C6_AsStated ==
    [][(MoveStep /\ call'.dry_run = On)
          => fs' = fs /\ dirs' = dirs /\ uploads' = uploads]_vars

\* C7 (as stated): when move_file returns moved, the record has status
\* moved, final_path the returned destination and moved_at set, and the file
\* at the destination has the record's content.
C7_AsStated ==
    [][(MoveStep /\ call'.status = "moved")
          => /\ uploads'[call'.id].status = "moved"
             /\ uploads'[call'.id].final_path = call'.destination
             /\ uploads'[call'.id].moved_at
             /\ call'.destination \in DOMAIN fs'
             /\ fs'[call'.destination] = uploads'[call'.id].hash]_vars

\* C7 (amended): when move_file returns moved, the record has status moved,
\* final_path the returned destination and moved_at set, and a file exists at
\* the destination; the file has the record's content unless integrity
\* verification is disabled.
C7_MovedRecordAndFile ==
    [][(MoveStep /\ call'.status = "moved")
          => /\ uploads'[call'.id].status = "moved"
             /\ uploads'[call'.id].final_path = call'.destination
             /\ uploads'[call'.id].moved_at
             /\ call'.destination \in DOMAIN fs'
             /\ call'.verify # Off =>
                   fs'[call'.destination] = uploads'[call'.id].hash]_vars

\* C7 witness: a verified copy was moved and the record points at it.
C7_Witness ==
    /\ call.op = "move" /\ call.status = "moved" /\ call.verify = On
    /\ uploads[call.id].final_path = call.destination
    /\ call.destination \in DOMAIN fs
    /\ fs[call.destination] = uploads[call.id].hash

\* C8 (as stated): for every record, status is moved exactly when final_path
\* is set, and a record just moved with cleanup-on-success has no file at its
\* quarantine_path.
C8_AsStated ==
    /\ \A id \in DOMAIN uploads :
          uploads[id].status = "moved" <=> uploads[id].final_path # NoPath
    /\ (call.op = "move" /\ call.status = "moved" /\ call.cleanup = On)
          => uploads[call.id].quarantine_path \notin DOMAIN fs

\* C9 (as stated): for every record, moved_at is set exactly when status is moved.
C9_AsStated ==
    \A id \in DOMAIN uploads : uploads[id].moved_at <=> uploads[id].status = "moved"

C11_AsStated ==
    [][MoveStep => call'.status # "exception"]_vars

\* The names "{title} - {author} (duplicate_{timestamp}){ext}" for the
\* metadata of record id.
RenamedNames(id) == {<<"duplicate", uploads[id].meta, t>> : t \in Timestamps}

Entries(rows) ==
    IF rows = NoManifest THEN <<>>
    ELSE SelectSeq(rows, LAMBDA r : r.action # "header")

\* C14 (as stated): with the manifest enabled, a call of move_file that ends
\* in status moved or duplicate_discarded appends exactly one entry for its
\* record to the manifest, with action moved or renamed for a move and
\* discarded for a discard.
C14_AsStated ==
    [][(MoveStep /\ call'.status \in {"moved", "duplicate_discarded"}
          /\ call'.checksum_manifest # Off)
          => \E action \in (IF call'.status = "moved" THEN {"moved", "renamed"}
                            ELSE {"discarded"}) :
                Entries(manifest') =
                    Append(Entries(manifest), [uuid |-> call'.id, action |-> action])]_vars

\* The rows in the manifest file, none while it does not exist.
Content(rows) == IF rows = NoManifest THEN <<>> ELSE rows
IsPrefix(s, t) == Len(s) <= Len(t) /\ \A i \in 1..Len(s) : s[i] = t[i]
IsHeader(r) == r.action = "header"

\* C15 (as stated): every step leaves the earlier content of the manifest
\* as a prefix of the later content, and a manifest with rows has the
\* header as its first row and nowhere else.
C15_AsStated ==
    [][/\ IsPrefix(Content(manifest), Content(manifest'))
       /\ Content(manifest') # <<>> =>
             /\ IsHeader(manifest'[1])
             /\ \A i \in 2..Len(manifest') : ~IsHeader(manifest'[i])]_vars

\* C15 (amended): every step leaves the earlier content of the manifest as
\* a prefix of the later content; the header is never written after the
\* first row; and the step that writes the first rows of a manifest file that
\* did not exist writes the header first.  (A manifest file left empty by a
\* write that failed gets no header from later writes.)
C15_AppendOnly ==
    [][/\ IsPrefix(Content(manifest), Content(manifest'))
       /\ \A i \in 2..Len(Content(manifest')) : ~IsHeader(manifest'[i])
       /\ manifest # NoManifest =>
             \A i \in (Len(manifest) + 1)..Len(manifest') : ~IsHeader(manifest'[i])
       /\ (manifest = NoManifest /\ Content(manifest') # <<>>) =>
             IsHeader(manifest'[1])]_vars

\* C15 witness: two calls of move_file have appended to the manifest, which
\* holds the header and their two entries.
C15_Witness ==
    /\ call.op = "move" /\ call.checksum_manifest = On
    /\ call.status \in {"moved", "duplicate_discarded"}
    /\ manifest # NoManifest /\ Len(manifest) = 3
    /\ IsHeader(manifest[1])
    /\ manifest[3].uuid = call.id /\ manifest[2].uuid # call.id

\* The three conditions of the free-space check, in exact arithmetic.
EnoughFree(c) == c.free >= c.required_bytes
EnoughPercent(c) == (c.free - c.required_bytes) * 100 >= c.min_free_percent * c.total
EnoughReserve(c) == c.free - c.required_bytes >= c.reserve_bytes
SpaceChecked == call.op = "check_disk_space_available"

\* C16 (as stated): check_disk_space_available allows exactly when free >=
\* required, the free space left is at least the minimum percentage of the
\* total, and the free space left is at least the reserve; otherwise it
\* denies with a non-empty reason.
C16_AsStated ==
    SpaceChecked =>
       /\ call.allowed <=> (EnoughFree(call) /\ EnoughPercent(call) /\ EnoughReserve(call))
       /\ ~call.allowed => call.reason # ""

\* C16 (amended): check_disk_space_available denies with a non-empty reason
\* whenever one of the three conditions fails, and allows whenever all three
\* hold with the percentage strictly above the minimum; when the free space
\* left is exactly the minimum percentage of the total it allows unless the
\* percentage, computed in double precision, falls below the minimum
\* (29 of 50 units against a minimum of 58).
C16_AllowsWhenAllHold ==
    SpaceChecked =>
       /\ call.allowed =>
             (EnoughFree(call) /\ EnoughPercent(call) /\ EnoughReserve(call))
       /\ (EnoughFree(call) /\ EnoughPercent(call) /\ EnoughReserve(call) /\ ~call.allowed)
             => /\ (call.free - call.required_bytes) * 100 = call.min_free_percent * call.total
                /\ call.free - call.required_bytes = 29 /\ call.total = 50
       /\ ~call.allowed => call.reason # ""

\* C16 witness: an upload was denied for the percentage alone, and another
\* one unit smaller would have been allowed.
C16_Witness ==
    /\ SpaceChecked /\ ~call.allowed /\ call.reason = "Upload would leave only"
    /\ EnoughFree(call) /\ EnoughReserve(call) /\ ~EnoughPercent(call)
    /\ (call.free - call.required_bytes + 1) * 100 >= call.min_free_percent * call.total

\* Only the named condition of the free-space check fails in the check c.
OnlyFails(condition, c) ==
    /\ EnoughFree(c) <=> condition # "absolute"
    /\ EnoughPercent(c) <=> condition # "percentage"
    /\ EnoughReserve(c) <=> condition # "reserve"

\* C17: for each of the three conditions (absolute bytes, minimum free
\* percentage, reserve buffer) there is a disk usage and a configuration for
\* which that condition alone fails, and check_disk_space_available denies
\* the upload there: while a check can be made, such a check is possible.
C17_ThresholdIndependence ==
    requests < MaxChecks =>
       \A condition \in {"absolute", "percentage", "reserve"} :
          ENABLED (SpaceCheck /\ OnlyFails(condition, call') /\ ~call'.allowed)

\* C17 witness: an upload was denied with the absolute-bytes condition alone
\* failing: the thresholds are negative, so that the space missing after the
\* upload still passes the percentage and reserve conditions.
C17_Witness ==
    /\ SpaceChecked /\ ~call.allowed /\ call.reason = "Insufficient disk space"
    /\ OnlyFails("absolute", call)
    /\ call.min_free_percent < 0 /\ call.reserve_bytes < 0

\* The step is a call of upload_file.
UploadStep == call'.op = "upload_file"
\* The sum of file_size over the records with status quarantined or
\* scanning: every record holds a file of FileSize.
QuarantineSize(ups) ==
    FileSize * Cardinality({id \in DOMAIN ups : ups[id].status \in {"quarantined", "scanning"}})

\* C18: the quarantine check of an upload denies exactly when the cap is
\* positive and the sum of file_size over the records with status
\* quarantined or scanning, plus the size of the upload, exceeds the cap;
\* with a cap of 0 it allows.
C18_QuarantineLimit ==
    [][(UploadStep /\ "quarantine" \in call'.checks)
          => /\ call'.quarantine = "full" <=>
                   /\ call'.max_quarantine_size > 0
                   /\ QuarantineSize(uploads) + call'.file_size > call'.max_quarantine_size
             /\ call'.quarantine \in {"ok", "full"}
             /\ call'.max_quarantine_size <= 0 => call'.quarantine = "ok"]_vars

\* C18 witness: an upload was denied by the quarantine check for exceeding
\* the cap by one unit, with a record that is neither quarantined nor
\* scanning left out of the sum.
C18_Witness ==
    /\ call.op = "upload_file" /\ call.quarantine = "full"
    /\ call.auto_cleanup = Off
    /\ QuarantineSize(uploads) + call.file_size = call.max_quarantine_size + 1
    /\ QuarantineSize(uploads) < FileSize * Len(uploads)

\* The step adds a record or writes a file in the quarantine directory.
Persisted ==
    \/ Len(uploads') > Len(uploads)
    \/ \E p \in DOMAIN fs' : p[1] = QuarantineDir /\ p \notin DOMAIN fs
\* The bytes the step freed in the quarantine directory.
Freed == FileSize * (Cardinality(FilesIn(QuarantineDir))
                     - Cardinality({p \in DOMAIN fs' : p[1] = QuarantineDir}))
GuardChecks == {"space", "quarantine", "single"}
\* The call reached the Disk Guard and found the quarantine limit exceeded.
LimitExceeded == UploadStep /\ call'.quarantine = "full"

C20_AsStated ==
    [][(UploadStep /\ call'.status = 400) => uploads' = uploads /\ fs' = fs]_vars

\* The answers with which upload_file turns a request away: validation and
\* single-upload cap (400), login (401), Disk Guard (507).
UploadRejections == {400, 401, 507}

\* C21 (as stated): an upload that upload_file does not turn away (allowed
\* extension, non-empty, within the size caps, Disk Guard passed, logged in)
\* is answered 201 and adds exactly one record, with status quarantined and
\* the hash of the uploaded bytes, whose file {uuid}.{ext} is in the
\* quarantine directory with that content.
C21_AsStated ==
    [][(UploadStep /\ call'.status \notin UploadRejections)
          => /\ call'.status = 201
             /\ Len(uploads') = Len(uploads) + 1
             /\ uploads'[Len(uploads')].status = "quarantined"
             /\ uploads'[Len(uploads')].quarantine_path \in DOMAIN fs'
             /\ fs'[uploads'[Len(uploads')].quarantine_path] = uploads'[Len(uploads')].hash]_vars

\* The step is a scan of record call'.id that got a verdict from the scanner.
ScanStep == call'.op = "scan"
ScanCompleted == ScanStep /\ call'.status = "completed"

\* The status the record is to take for a scanner verdict.
VerdictStatus(scan_status) ==
    IF scan_status = "malicious" THEN "infected"
    ELSE IF scan_status \in {"clean", "undetected"} THEN "safe"
    ELSE IF scan_status = "suspicious" THEN "suspicious"
    ELSE IF scan_status = "pending" THEN "scanning"
    ELSE "error"

\* C22 (as stated): when a scan completes with a verdict of the scanner, the
\* record's status is infected for malicious, safe for clean or undetected,
\* suspicious for suspicious, scanning for pending and error for any other
\* verdict, and the scan result and scan time are stored with it.
C22_AsStated ==
    [][ScanCompleted
          => /\ uploads'[call'.id].status = VerdictStatus(call'.scan_status)
             /\ uploads'[call'.id].scan_result # None
             /\ uploads'[call'.id].scanned_at # NoTime]_vars

\* The scan went past the checks on the record (enabled, found, not yet clean).
ScanRan == ScanStep /\ call'.status \in {"reused", "exception", "completed"}
\* The scan states of a failed scan.
FailedScans == {"error", "pending"}

\* C23 (as stated): a scan that got error or pending from the scanner leaves
\* the record's scan result error or pending, and a later scan of a record
\* whose scan result is error or pending invokes the scanner again instead
\* of reusing a stored result.
C23_AsStated ==
    [][/\ (ScanCompleted /\ call'.scan_status \in FailedScans)
              => uploads'[call'.id].scan_result \in FailedScans
       /\ (ScanRan /\ uploads[call'.id].scan_result \in FailedScans)
              => call'.status # "reused"]_vars

\* The last call was a move_file that ended in an integrity failure.
IntegrityFailed == call.op = "move" /\ call.status = "integrity_failed"

\* C24 (as stated): after move_file has ended in an integrity failure for a
\* record, a move_file call on the same record can pass the status
\* precondition and complete the move.
C24_AsStated ==
    (IntegrityFailed /\ requests < MaxRequests)
       => ENABLED (PostMove(MaxUploads) /\ call'.id = call.id /\ call'.status = "moved")

\* The quarantine file of record id is on disk.
Quarantined(id) == Exists(id) /\ FileExists(uploads[id].quarantine_path)

\* C25 (as stated): the quarantine file of a record discarded as a duplicate
\* is eventually deleted, while the cleanup sweeps keep being run.
C25_AsStated ==
    \A id \in Ids :
       (Quarantined(id) /\ uploads[id].status = "duplicate_discarded") ~> ~Quarantined(id)

\* The last call was a duplicate report on record call.id with duplicate
\* detection enabled.
Reported == call.op = "check_duplicate" /\ call.status # "404" /\ call.enabled = On
\* The other records with the content of record id.
SameContent(id) == {j \in DOMAIN uploads \ {id} : uploads[j].hash = uploads[id].hash}

\* C26 (as stated): the duplicate report says is_duplicate only when another
\* record has the content of the record checked, and for a record whose
\* content is unique in the store it says is_duplicate=false with reason
\* unique_file.
C26_AsStated ==
    Reported
       => /\ call.is_duplicate => SameContent(call.id) # {}
          /\ SameContent(call.id) = {}
                => call.status = "ok" /\ ~call.is_duplicate /\ call.reason = "unique_file"

\* Two calls of move_file that have started on the same record.
SameRecord(p, q) ==
    /\ p # q
    /\ tasks[p].pc # "idle" /\ tasks[q].pc # "idle"
    /\ tasks[p].id = tasks[q].id
\* The files in the destination directory that the calls on record id made.
CopiesMade(id) ==
    {tasks[p].destination : p \in {q \in Movers : tasks[q].pc # "idle" /\ tasks[q].id = id}}
       \cap FilesIn(ProcessedDir)

\* C27 (as stated): of two concurrent move_file calls on one record at most
\* one performs the physical move or the discard, at most one copy of the
\* file is made in the destination directory, and a status of moved is not
\* overwritten by the other call.
C27_AsStated ==
    [][/\ \A p \in Movers, q \in Movers :
             SameRecord(p, q)' => /\ ~(tasks'[p].acted /\ tasks'[q].acted)
                                  /\ Cardinality(CopiesMade(tasks[p].id)') <= 1
       /\ \A id \in DOMAIN uploads :
             uploads[id].status = "moved" => uploads'[id].status = "moved"]_vars

\* The status record id had when the sweep in flight selected it.
SelectedStatus(id) ==
    LET t == tasks[Sweeper]
    IN t.selected[CHOOSE i \in DOMAIN t.old_uploads : t.old_uploads[i] = id]
\* The records whose quarantine file the step deletes.
Unlinked ==
    {id \in DOMAIN uploads :
        uploads[id].quarantine_path \in DOMAIN fs \ DOMAIN fs'}

\* C28 (as stated): a cleanup sweep running beside the other operations
\* deletes the quarantine file only of records that are in an eligible
\* status at the moment of the deletion, and its commit overwrites no status
\* written after it selected its candidates.
C28_AsStated ==
    [][/\ (tasks[Sweeper].pc = "selected" /\ tasks'[Sweeper].pc = "swept")
             => \A id \in Unlinked : uploads[id].status \in CleanupStatuses
       /\ (tasks[Sweeper].pc = "swept" /\ tasks'[Sweeper].pc = "done")
             => \A id \in tasks[Sweeper].marked :
                   uploads[id].status = SelectedStatus(id)]_vars

\* C29 (as stated): no record has status moved and its file at final_path
\* while its scan result is infected.
C29_AsStated ==
    \A id \in DOMAIN uploads :
       ~ /\ uploads[id].status = "moved"
         /\ uploads[id].final_path \in DOMAIN fs
         /\ uploads[id].scan_result = "infected"

\* The statuses after which a record is not to change any more.
TerminalStatuses ==
    {"moved", "duplicate_discarded", "deleted", "auto_deleted", "emergency_deleted"}

\* C30 (as stated): once the status of a record is moved, duplicate_discarded,
\* deleted, auto_deleted or emergency_deleted, no operation changes it.
C30_AsStated ==
    [][\A id \in DOMAIN uploads :
          uploads[id].status \in TerminalStatuses
             => uploads'[id].status = uploads[id].status]_vars

\* Two calls of move_file that have each moved or discarded a record, on two
\* records of one content of which the library holds no copy.
TwinsMoved(p, q) ==
    /\ tasks[p].pc = "done" /\ tasks[q].pc = "done"
    /\ tasks[p].acted /\ tasks[q].acted
    /\ tasks[p].id # tasks[q].id
    /\ uploads[tasks[p].id].hash = uploads[tasks[q].id].hash
    /\ \A path \in FilesIn(LibraryDir) : fs[path] # uploads[tasks[p].id].hash

\* C31 (as stated): once move_file has been called on two verified records
\* of identical content, of which there is no other copy, one record has
\* status moved and the other duplicate_discarded.
C31_AsStated ==
    \A p \in Movers, q \in Movers :
       TwinsMoved(p, q)
          => {uploads[tasks[p].id].status, uploads[tasks[q].id].status}
                = {"moved", "duplicate_discarded"}

\* C32 (as stated): a duplicate_of that is set references an existing record
\* whose status is moved or safe and which is not itself a duplicate.
C32_AsStated ==
    \A id \in DOMAIN uploads :
       uploads[id].duplicate_of # 0
          => /\ uploads[id].duplicate_of \in DOMAIN uploads
             /\ uploads[uploads[id].duplicate_of].status \in {"moved", "safe"}
             /\ uploads[uploads[id].duplicate_of].status # "duplicate_discarded"
             /\ ~uploads[uploads[id].duplicate_of].is_duplicate

\* A call of move_file that handled a name conflict: it renamed the file or
\* discarded the record for its name.
NameConflictHandled ==
    /\ MoveStep
    /\ call'.status \notin Rejections
    /\ call'.rename = On \/ call'.reason = "name_conflict_rename_disabled"

\* C33 (as stated): move_file handles a name conflict only when a kept record
\* of the same title and author has a content hash that differs from the
\* moved record's hash.
C33_AsStated ==
    [][NameConflictHandled
          => \E j \in DOMAIN uploads :
                /\ j # call'.id
                /\ uploads[j].status \in KeptStatuses
                /\ uploads[j].meta = uploads[call'.id].meta
                /\ uploads[j].hash # uploads[call'.id].hash]_vars

\* A record a step changed: its row, or the file at its quarantine_path.
Changed(id) ==
    \/ uploads'[id] # uploads[id]
    \/ (uploads[id].quarantine_path \in DOMAIN fs) # (uploads[id].quarantine_path \in DOMAIN fs')
    \/ /\ uploads[id].quarantine_path \in DOMAIN fs \cap DOMAIN fs'
       /\ fs'[uploads[id].quarantine_path] # fs[uploads[id].quarantine_path]

\* A step of one cleanup changes only records of the given statuses among the
\* `older` oldest, leaves each with the given status and without its file, and
\* leaves every file that is not a changed record's quarantine file as it was.
CleanupFrame(statuses, older, deleted) ==
    /\ DOMAIN uploads' = DOMAIN uploads
    /\ \A id \in DOMAIN uploads :
          Changed(id) => /\ uploads[id].status \in statuses
                         /\ id <= older
                         /\ uploads'[id].status = deleted
                         /\ uploads'[id].quarantine_path \notin DOMAIN fs'
    /\ DOMAIN fs' \subseteq DOMAIN fs
    /\ \A path \in DOMAIN fs :
          (\A id \in DOMAIN uploads : Changed(id) => uploads[id].quarantine_path # path)
             => path \in DOMAIN fs' /\ fs'[path] = fs[path]

ChangedRecords == {id \in DOMAIN uploads : Changed(id)}
Deleted == {id \in DOMAIN uploads : uploads[id].quarantine_path \in DOMAIN fs \ DOMAIN fs'}
\* The candidates of the step's query, oldest first.
CleanupCandidates ==
    IF call'.op = "cleanup_old_files"
    THEN Candidates({"quarantined", "scanning", "scan_failed", "infected"}, call'.older)
    ELSE Candidates({"quarantined", "scanning", "scan_failed"}, Len(uploads))
CleanupStep == call'.op \in {"cleanup_old_files", "emergency_cleanup"}
\* No record is touched once the bytes freed have reached the target.
StopsAtTarget ==
    \A id \in ChangedRecords :
       call'.target > 0
          => FileSize * Cardinality({j \in Deleted : j < id}) < call'.target
\* The value returned is the size of the files deleted.
ReturnsFreed == call'.bytes_freed = FileSize * Cardinality(Deleted)

\* C35 (as stated): the records a cleanup changes form a prefix of the
\* oldest-first candidate list, no record is touched after the target has
\* been reached, and the value returned is the size of the files deleted.
C35_AsStated ==
    [][CleanupStep
          => /\ \E n \in 0..Len(CleanupCandidates) :
                   ChangedRecords = {CleanupCandidates[i] : i \in 1..n}
             /\ StopsAtTarget
             /\ ReturnsFreed]_vars

\* C35 (amended): the records a cleanup changes lie in a prefix of the
\* oldest-first candidate list whose other records are those whose file
\* could not be deleted and is still there; the prefix is the whole list
\* unless the target was reached; no record is touched after the target has
\* been reached, and the value returned is the size of the files deleted.
C35_Theorem ==
    [][CleanupStep
          => /\ \E n \in 0..Len(CleanupCandidates) :
                   /\ ChangedRecords \subseteq {CleanupCandidates[i] : i \in 1..n}
                   /\ \A i \in 1..n :
                         CleanupCandidates[i] \notin ChangedRecords
                            => uploads[CleanupCandidates[i]].quarantine_path \in DOMAIN fs'
                   /\ n < Len(CleanupCandidates)
                         => call'.target > 0 /\ call'.bytes_freed >= call'.target
             /\ StopsAtTarget
             /\ ReturnsFreed]_vars

\* A cleanup with a target has stopped at it: the oldest record is deleted
\* and a younger candidate is left in quarantine with its file.
C35_Witness ==
    /\ call.op \in {"cleanup_old_files", "emergency_cleanup"}
    /\ call.target > 0
    /\ call.bytes_freed = call.target
    /\ \E id \in DOMAIN uploads, other \in DOMAIN uploads :
          /\ id < other
          /\ uploads[id].status \in {"auto_deleted", "emergency_deleted"}
          /\ uploads[other].status = "quarantined"
          /\ uploads[other].quarantine_path \in DOMAIN fs

\* upload_file let the upload past the Disk Guard and the login check, up to
\* its call of save_to_quarantine, under a positive cap that the store was
\* within when the request came.
AdmittedUnderCap ==
    /\ UploadStep
    /\ "single" \in call'.checks
    /\ call'.status = 500
    /\ call'.max_quarantine_size > 0
    /\ QuarantineSize(uploads) <= call'.max_quarantine_size

C37_AsStated ==
    [][(ScanRan /\ uploads'[call'.id].status = "infected")
          => /\ uploads'[call'.id].scan_result = "infected"
             /\ call'.status = "reused"
                   => uploads[call'.previous].scan_result
                         \notin {"suspicious", "pending", "error"}]_vars

\* C38 (as stated): the destination that move_file chooses is a direct child
\* of the processed subfolder, whatever the original filename of the record.
C38_AsStated ==
    [][(Proceeded /\ call'.destination # NoPath)
          => /\ call'.destination[1] = ProcessedDir
             /\ Head(call'.destination[2]) # ".."]_vars

\* Two calls of move_file on different records that have each written a
\* destination file.
BothWrote(p, q) ==
    /\ p # q
    /\ tasks[p].pc \in {"copied", "placed", "done"}
    /\ tasks[q].pc \in {"copied", "placed", "done"}
    /\ tasks[p].id # tasks[q].id
    /\ tasks[p].acted /\ tasks[q].acted
    /\ tasks[p].destination # NoPath /\ tasks[q].destination # NoPath

\* C39: two calls of move_file on different records, in flight together and
\* resolving the same filename, never write the same destination path: their
\* destinations differ, records that are moved have distinct final_path
\* values, and no step overwrites the content of a file in the destination
\* directory.
C39_Theorem ==
    [][/\ \A p \in Movers, q \in Movers :
             BothWrote(p, q)' => tasks'[p].destination # tasks'[q].destination
       /\ \A i \in DOMAIN uploads', j \in DOMAIN uploads' :
             (i # j /\ uploads'[i].status = "moved" /\ uploads'[j].status = "moved")
                => uploads'[i].final_path # uploads'[j].final_path
       /\ \A path \in FilesIn(ProcessedDir) \cap DOMAIN fs' : fs'[path] = fs[path]]_vars

\* Both calls are in flight on different records of the same filename and
\* different contents: one has copied to a.epub and awaits verify_integrity,
\* the other has copied to a_1.epub.
C39_Witness ==
    \E p \in Movers, q \in Movers :
       /\ BothWrote(p, q)
       /\ tasks[p].pc = "copied" /\ tasks[q].pc \in {"copied", "placed"}
       /\ tasks[p].filename = tasks[q].filename
       /\ uploads[tasks[p].id].hash # uploads[tasks[q].id].hash
       /\ tasks[p].destination = <<ProcessedDir, <<"a">>>>
       /\ tasks[q].destination = <<ProcessedDir, <<"a", 1>>>>

\* The scan has reached the scanner and has not stored its verdict yet.
ScanInFlight == tasks[Scanner].pc \in {"started", "polling", "finished"}

====
